---- MODULE Spec2Model ----
(***************************************************************************)
(* Notebook chunk execution capture (rstudio, session/modules/rmarkdown):  *)
(* ChunkExecContext (NotebookExec.cpp) and the plot capture session        *)
(* (NotebookPlots.cpp).  Every handler is a function from the program      *)
(* state (a record with one field per variable) to the program state; an   *)
(* action applies the handlers that one event-loop dispatch runs.          *)
(***************************************************************************)
EXTENDS Integers, Sequences, FiniteSets, TLC

\* ------------------------------------------------------------------ bounds
NumCtx == 2        \* execution contexts created one after another
MaxDraws == 2      \* pages drawn on the graphics devices in a run
MaxText == 1       \* console texts with a listener in a run
MaxHtml == 1       \* html fragments produced in a run

Ctx == 1..NumCtx
\* each context executes a chunk of its own: chunk c is (docId, chunkId) of
\* context c
Chunk == Ctx

\* ------------------------------------------------------------------- paths
\* A path directly under a chunk output folder: the folder (parent), whether
\* its stem starts with kPlotPrefix, its extension, whether it is a
\* directory, and the sequence number in its name.
PlotFile(k, n) ==
  [parent |-> k, prefix |-> TRUE, ext |-> ".png", dir |-> FALSE, n |-> n]
HtmlFile(k, n) ==
  [parent |-> k, prefix |-> FALSE, ext |-> ".html", dir |-> FALSE, n |-> n]
LibDir(k) ==
  [parent |-> k, prefix |-> FALSE, ext |-> "", dir |-> TRUE, n |-> 0]

LowerCase(e) == IF e = ".PNG" THEN ".png" ELSE e

isPlotPath(path) == LowerCase(path.ext) = ".png" /\ path.prefix

plotFilter(file) == file.dir \/ isPlotPath(file)

\* directory listings come back in name order: "_rs_chunk_plot_00n.png"
\* sorts before "lib", which sorts before the html fragments
SortKey(f) == IF f.prefix THEN f.n ELSE IF f.dir THEN 100 ELSE 200 + f.n

RECURSIVE SortedSeq(_)
SortedSeq(S) ==
  IF S = {} THEN <<>>
  ELSE LET m == CHOOSE x \in S : \A y \in S : SortKey(x) <= SortKey(y)
       IN <<m>> \o SortedSeq(S \ {m})

\* ----------------------------------------------------------------- signals
\* A slot is the bound function object handed to signal.connect(): the
\* function, the bound object, the remaining bound arguments, and the
\* monitor handle for unregisterMonitor.  signal.disconnect(f) removes the
\* slots that compare equal to f.
Slot(fn, this, args, handle) ==
  [fn |-> fn, this |-> this, args |-> args, handle |-> handle]

SignalConnect(sig, slot) == Append(sig, slot)

SignalDisconnect(sig, slot) == SelectSeq(sig, LAMBDA x : x # slot)

IsConnected(sig, slot) == \E i \in 1..Len(sig) : sig[i] = slot

NoSlots == [onConsolePrompt |-> <<>>, onConsoleOutput |-> <<>>,
            onConsoleInput |-> <<>>, onPlotOutput |-> <<>>,
            onPlotOutputComplete |-> <<>>, onHtmlOutput |-> <<>>]

\* ------------------------------------------------------------------- state
VARIABLES
  chunkId_,           \* ctx -> chunk it executes
  consoleConnected_,  \* ctx -> BOOLEAN
  plotsConnected_,    \* ctx -> BOOLEAN
  connectOutcome,     \* ctx -> what connect() armed ("none" before it ran)
  sigs,               \* signal name -> sequence of connected slots
  monitor,            \* handle -> state of the file monitor registration
  monEvents,          \* handle -> queued file-change events
  disk,               \* paths that exist under the chunk output folders
  devices,            \* R's graphics devices: slots and the current one
  ledger,             \* chunk -> last OutputPair
  enqueued,           \* enqueueChunkOutput notifications, in order
  consoleLog,         \* chunk -> records of the console csv
  consoleNotified,    \* ctx -> onChunkConsoleOutput notifications it sent
  completedEvents,    \* ctx -> onChunkExecCompleted emissions
  cacheLib,           \* chunk -> lib folder merged into the cache folder
  failedMoves,        \* the moves onFileOutput gave up on
  sessionTrace,       \* plot folder -> what its capture session did
  running,            \* context whose chunk R is executing, 0 at top level
  nDraws, nHtml       \* pages and html fragments so far (bounds only)

vars == <<chunkId_, consoleConnected_, plotsConnected_, connectOutcome, sigs,
          monitor, monEvents, disk, devices, ledger, enqueued, consoleLog,
          consoleNotified, completedEvents, cacheLib, failedMoves, sessionTrace,
          running, nDraws, nHtml>>

State ==
  [chunkId_ |-> chunkId_, consoleConnected_ |-> consoleConnected_,
   plotsConnected_ |-> plotsConnected_, connectOutcome |-> connectOutcome,
   sigs |-> sigs, monitor |-> monitor, monEvents |-> monEvents,
   disk |-> disk, devices |-> devices, ledger |-> ledger,
   enqueued |-> enqueued, consoleLog |-> consoleLog,
   consoleNotified |-> consoleNotified, completedEvents |-> completedEvents,
   cacheLib |-> cacheLib, failedMoves |-> failedMoves,
   sessionTrace |-> sessionTrace, running |-> running, nDraws |-> nDraws,
   nHtml |-> nHtml]

Commit(s) ==
  /\ chunkId_' = s.chunkId_
  /\ consoleConnected_' = s.consoleConnected_
  /\ plotsConnected_' = s.plotsConnected_
  /\ connectOutcome' = s.connectOutcome
  /\ sigs' = s.sigs
  /\ monitor' = s.monitor
  /\ monEvents' = s.monEvents
  /\ disk' = s.disk
  /\ devices' = s.devices
  /\ ledger' = s.ledger
  /\ enqueued' = s.enqueued
  /\ consoleLog' = s.consoleLog
  /\ consoleNotified' = s.consoleNotified
  /\ completedEvents' = s.completedEvents
  /\ cacheLib' = s.cacheLib
  /\ failedMoves' = s.failedMoves
  /\ sessionTrace' = s.sessionTrace
  /\ running' = s.running
  /\ nDraws' = s.nDraws
  /\ nHtml' = s.nHtml

\* ------------------------------------------------------------ file system
children(s, k) == {p \in s.disk : p.parent = k}

\* the file monitors whose root is folder k
MonitorsOn(s, k) == {h \in Ctx : s.chunkId_[h] = k}

FileChangeEvent(type, file) == [type |-> type, file |-> file]

\* A monitor that is registered reports a change to a path its filter
\* accepts; one that is being registered or unregistered may or may not
\* (racy names the ones that do).
Reports(s, h, file, racy) ==
  /\ plotFilter(file)
  /\ \/ s.monitor[h] = "registered"
     \/ s.monitor[h] \in {"registering", "unregistering"} /\ h \in racy

QueueEvent(s, type, file, racy) ==
  [s EXCEPT !.monEvents =
     [h \in Ctx |->
        IF h \in MonitorsOn(s, file.parent) /\ Reports(s, h, file, racy)
        THEN Append(@[h], FileChangeEvent(type, file)) ELSE @[h]]]

WriteFile(s, file, racy) ==
  IF file \in s.disk THEN s
  ELSE QueueEvent([s EXCEPT !.disk = @ \cup {file}], "FileAdded", file, racy)

RemoveFile(s, file, racy) ==
  IF file \notin s.disk THEN s
  ELSE QueueEvent([s EXCEPT !.disk = @ \ {file}], "FileRemoved", file, racy)

\* ------------------------------------------------------- ChunkExecContext
PlotSlot(c) == Slot("onFileOutput", c, <<"_1", "kChunkOutputPlot">>, 0)
HtmlSlot(c) == Slot("onFileOutput", c, <<"_1", "kChunkOutputHtml">>, 0)
PlotCompleteSlot(c) == Slot("onPlotOutputComplete", c, <<>>, 0)

\* events().onChunkExecCompleted(docId_, chunkId_, contextId): the listener
\* sees the flags as they are while the signal is being emitted
onChunkExecCompleted(s, c) ==
  [s EXCEPT !.completedEvents[c] =
     Append(@, [console |-> s.consoleConnected_[c],
                plots |-> s.plotsConnected_[c]])]

onPlotOutputComplete(s, c) ==
  LET s1 == [s EXCEPT
               !.sigs.onPlotOutput = SignalDisconnect(@, PlotSlot(c)),
               !.sigs.onPlotOutputComplete =
                  SignalDisconnect(@, PlotCompleteSlot(c)),
               !.plotsConnected_[c] = FALSE]
  IN IF ~s1.consoleConnected_[c] THEN onChunkExecCompleted(s1, c) ELSE s1

\* disconnect() without the test of plotsConnected_
disconnect_always(s, c) ==
  LET s1 == [s EXCEPT !.sigs.onHtmlOutput = SignalDisconnect(@, HtmlSlot(c))]
  IN [onChunkExecCompleted(s1, c) EXCEPT !.consoleConnected_[c] = FALSE]

disconnect(s, c) ==
  LET s1 == [s EXCEPT
               !.sigs.onConsolePrompt =
                  SignalDisconnect(@, Slot("onConsolePrompt", c, <<>>, 0)),
               !.sigs.onConsoleOutput =
                  SignalDisconnect(@, Slot("onConsoleOutput", c, <<>>, 0)),
               !.sigs.onConsoleInput =
                  SignalDisconnect(@, Slot("onConsoleInput", c, <<>>, 0)),
               !.sigs.onHtmlOutput = SignalDisconnect(@, HtmlSlot(c))]
      s2 == IF ~s1.plotsConnected_[c] THEN onChunkExecCompleted(s1, c)
            ELSE s1
  IN [s2 EXCEPT !.consoleConnected_[c] = FALSE]

onConsolePrompt(s, c) ==
  IF s.consoleConnected_[c] THEN disconnect(s, c) ELSE s

\* lastChunkOutput / updateLastChunkOutput: the chunk's last OutputPair
InitialOutputPair == [ordinal |-> -1, outputType |-> "kChunkOutputNone"]

lastChunkOutput(s, k) == s.ledger[k]

updateLastChunkOutput(s, k, pair) == [s EXCEPT !.ledger[k] = pair]

enqueueChunkOutput(s, c, outputType, pair, file) ==
  [s EXCEPT !.enqueued =
     Append(@, [ctx |-> c, chunk |-> s.chunkId_[c], outputType |-> outputType,
                ordinal |-> pair.ordinal, file |-> file])]

\* a move onFileOutput gave up on: the ordinal it had computed, and the
\* chunk's last ordinal as the ledger has it when the handler returns
FailedMove(s, c, file, pair) ==
  [s EXCEPT !.failedMoves =
     @ \cup {[ctx |-> c, file |-> file, ordinal |-> pair.ordinal,
              refused |-> file \in s.disk,
              after |-> lastChunkOutput(s, s.chunkId_[c]).ordinal]}]

\* onFileOutput() that records the pair in the ledger before it moves the file
onFileOutput_consume(s, c, file, outputType, moveOk) ==
  LET k == s.chunkId_[c]
      last == lastChunkOutput(s, k)
      pair == [ordinal |-> last.ordinal + 1, outputType |-> outputType]
      s0 == updateLastChunkOutput(s, k, pair)
  IN IF file \notin s.disk \/ ~moveOk
     THEN FailedMove(s0, c, file, pair)
     ELSE enqueueChunkOutput(RemoveFile(s0, file, {}), c, outputType, pair,
                             file)

\* onFileOutput() that notifies the listeners of an artifact it could not move
onFileOutput_notify(s, c, file, outputType, moveOk) ==
  LET k == s.chunkId_[c]
      last == lastChunkOutput(s, k)
      pair == [ordinal |-> last.ordinal + 1, outputType |-> outputType]
      s1 == IF file \notin s.disk \/ ~moveOk
            THEN FailedMove(s, c, file, pair)
            ELSE updateLastChunkOutput(RemoveFile(s, file, {}), k, pair)
  IN enqueueChunkOutput(s1, c, outputType, pair, file)

\* file.move(target) fails when the source is gone or when the file system
\* refuses (moveOk = FALSE)
onFileOutput(s, c, file, outputType, moveOk) ==
  LET k == s.chunkId_[c]
      last == lastChunkOutput(s, k)
      pair == [ordinal |-> last.ordinal + 1, outputType |-> outputType]
      fileLib == LibDir(file.parent)
  IN IF file \notin s.disk \/ ~moveOk
     THEN FailedMove(s, c, file, pair)
     ELSE LET s1 == RemoveFile(s, file, {})
              s2 == IF fileLib \in s1.disk
                    THEN [RemoveFile(s1, fileLib, {}) EXCEPT
                            !.cacheLib[k] = TRUE]
                    ELSE s1
              s3 == enqueueChunkOutput(s2, c, outputType, pair, file)
          IN updateLastChunkOutput(s3, k, pair)

\* onConsoleText() that takes the chunk's next ordinal for the line
onConsoleText_ordinal(s, c, type, output, truncate, writeOk) ==
  IF output = "" THEN s
  ELSE LET k == s.chunkId_[c]
           last == lastChunkOutput(s, k)
           s1 == updateLastChunkOutput(s, k,
                    [ordinal |-> last.ordinal + 1, outputType |-> type])
       IN [s1 EXCEPT !.consoleLog[k] =
                        Append(@, [type |-> type, text |-> output]),
                     !.consoleNotified[c] = @ + 1]

\* onConsoleText() that returns when the log cannot be written
onConsoleText_quiet(s, c, type, output, truncate, writeOk) ==
  IF output = "" \/ ~writeOk THEN s
  ELSE [s EXCEPT !.consoleLog[s.chunkId_[c]] =
                    Append(@, [type |-> type, text |-> output]),
                 !.consoleNotified[c] = @ + 1]

onConsoleText(s, c, type, output, truncate, writeOk) ==
  IF output = "" THEN s
  ELSE LET k == s.chunkId_[c]
           line == [type |-> type, text |-> output]
           s1 == IF writeOk
                 THEN [s EXCEPT !.consoleLog[k] =
                         IF truncate THEN <<line>> ELSE Append(@, line)]
                 ELSE s
       IN [s1 EXCEPT !.consoleNotified[c] = @ + 1]

onConsoleOutput(s, c, type, output, writeOk) ==
  IF type = "ConsoleOutputNormal"
  THEN onConsoleText(s, c, "kChunkConsoleOutput", output, FALSE, writeOk)
  ELSE onConsoleText(s, c, "kChunkConsoleError", output, FALSE, writeOk)

onConsoleInput(s, c, input, writeOk) ==
  onConsoleText(s, c, "kChunkConsoleInput", input, FALSE, writeOk)

\* ------------------------------------------------------ graphics devices
\* R keeps its open devices in numbered slots and one of them is current.
\* png(file = "<plotFolder>/_rs_chunk_plot_%03d.png") takes the lowest free
\* slot and becomes current; a page is written to its file when the next
\* page starts or when the device is closed.  folder = 0 is a free slot.
NoDevice == [folder |-> 0, page |-> 0, open |-> FALSE]

NoDevices == [slots |-> [i \in Ctx |-> NoDevice], cur |-> 0]

NewDevice(plotFolder) == [folder |-> plotFolder, page |-> 0, open |-> FALSE]

OpenSlots(devs) == {i \in Ctx : devs.slots[i].folder # 0}

openDevice(devs, plotFolder) ==
  LET free == Ctx \ OpenSlots(devs)
      i == CHOOSE x \in free : \A y \in free : x <= y
  IN [slots |-> [devs.slots EXCEPT ![i] = NewDevice(plotFolder)], cur |-> i]

\* the device that becomes current when slot i is closed: the next open one
\* after i, wrapping around; 0 when none is left
nextDevice(devs, i) ==
  LET rest == OpenSlots(devs) \ {i}
      after == {x \in rest : x > i}
  IN IF rest = {} THEN 0
     ELSE IF after # {} THEN CHOOSE x \in after : \A y \in after : x <= y
     ELSE CHOOSE x \in rest : \A y \in rest : x <= y

\* dev.off(): closes the current device, flushing its open page
devOff(s, racy) ==
  IF s.devices.cur = 0 THEN s
  ELSE LET i == s.devices.cur
           d == s.devices.slots[i]
           s1 == IF d.open
                 THEN WriteFile(s, PlotFile(d.folder, d.page + 1), racy)
                 ELSE s
       IN [s1 EXCEPT !.devices =
             [slots |-> [@.slots EXCEPT ![i] = NoDevice],
              cur |-> nextDevice(@, i)]]

\* --------------------------------------------------------- NotebookPlots
UnregisterSlot(handle) == Slot("unregisterMonitor", 0, <<"_1">>, handle)

\* unregisterMonitor() that leaves its prompt subscription connected
unregisterMonitor_keep(s, handle) ==
  [s EXCEPT !.monitor[handle] = IF @ = "registered" THEN "unregistering" ELSE @]

unregisterMonitor(s, handle) ==
  [s EXCEPT
     !.sigs.onConsolePrompt = SignalDisconnect(@, UnregisterSlot(handle)),
     !.monitor[handle] = IF @ = "registered" THEN "unregistering" ELSE @]

\* one slot of a signal, called with the signal's argument
CallSlot(s, sl, arg, env) ==
  CASE sl.fn = "onConsolePrompt" -> onConsolePrompt(s, sl.this)
    [] sl.fn = "onConsoleOutput" ->
         onConsoleOutput(s, sl.this, arg.type, arg.text, env.writeOk)
    [] sl.fn = "onConsoleInput" ->
         onConsoleInput(s, sl.this, arg.text, env.writeOk)
    [] sl.fn = "onFileOutput" ->
         onFileOutput(s, sl.this, arg,
                      IF sl.args[2] = "kChunkOutputPlot"
                      THEN "kChunkOutputPlot" ELSE "kChunkOutputHtml",
                      sl.this \notin env.failing)
    [] sl.fn = "onPlotOutputComplete" -> onPlotOutputComplete(s, sl.this)
    [] sl.fn = "unregisterMonitor" -> unregisterMonitor(s, sl.handle)

\* signal(arg): the slots connected when the emission starts are called in
\* connection order; one disconnected meanwhile is skipped
RECURSIVE EmitOver(_, _, _, _, _)
EmitOver(s, name, slots, arg, env) ==
  IF slots = <<>> THEN s
  ELSE LET sl == Head(slots)
           s1 == IF IsConnected(s.sigs[name], sl)
                 THEN CallSlot(s, sl, arg, env) ELSE s
       IN EmitOver(s1, name, Tail(slots), arg, env)

Emit(s, name, arg, env) == EmitOver(s, name, s.sigs[name], arg, env)

\* what a capture session did, for the record: the call, the route it
\* came by ("registered", "changed" or "teardown") and the path, if any
NoPath == [parent |-> 0, prefix |-> FALSE, ext |-> "", dir |-> FALSE, n |-> 0]

Trace(s, plotFolder, op, route, path) ==
  [s EXCEPT !.sessionTrace[plotFolder] =
     Append(@, [op |-> op, route |-> route, file |-> path])]

\* events().onPlotOutput(path)
EmitPlotOutput(s, path, route, env) ==
  Emit(Trace(s, path.parent, "onPlotOutput", route, path),
       "onPlotOutput", path, env)

\* for each path: if (isPlotPath(path)) events().onPlotOutput(path)
RECURSIVE ForwardPlots(_, _, _, _)
ForwardPlots(s, paths, route, env) ==
  IF paths = <<>> THEN s
  ELSE LET path == Head(paths)
           s1 == IF isPlotPath(path) THEN EmitPlotOutput(s, path, route, env)
                 ELSE s
       IN ForwardPlots(s1, Tail(paths), route, env)

\* removeGraphicsDevice() that reports completion before it sweeps the folder
removeGraphicsDevice_early(s, plotFolder, env) ==
  LET s1 == devOff(Trace(s, plotFolder, "dev.off", "teardown", NoPath),
                   env.racy)
      s2 == Emit(Trace(s1, plotFolder, "onPlotOutputComplete", "teardown",
                       NoPath),
                 "onPlotOutputComplete", "", env)
  IN ForwardPlots(s2, SortedSeq(children(s2, plotFolder)), "teardown", env)

removeGraphicsDevice(s, plotFolder, env) ==
  LET s1 == devOff(Trace(s, plotFolder, "dev.off", "teardown", NoPath),
                   env.racy)
      folderContents == SortedSeq(children(s1, plotFolder))
      s2 == ForwardPlots(s1, folderContents, "teardown", env)
  IN Emit(Trace(s2, plotFolder, "onPlotOutputComplete", "teardown", NoPath),
          "onPlotOutputComplete", "", env)

onMonitorRegistered(s, handle, files, env) ==
  LET s1 == [s EXCEPT !.sigs.onConsolePrompt =
                         SignalConnect(@, UnregisterSlot(handle))]
  IN ForwardPlots(s1, files, "registered", env)

\* a registration error that is only logged
onMonitorRegError_logonly(s, plotFolder, env) == s

\* a registration error that leaves the teardown to the next console prompt
onMonitorRegError_deferred(s, plotFolder, env) ==
  [s EXCEPT !.sigs.onConsolePrompt =
     SignalConnect(@, UnregisterSlot(plotFolder))]

onMonitorRegError(s, plotFolder, env) ==
  removeGraphicsDevice(s, plotFolder, env)

onMonitorUnregistered(s, plotFolder, env) ==
  removeGraphicsDevice(s, plotFolder, env)

RECURSIVE onPlotFilesChanged(_, _, _)
onPlotFilesChanged(s, changeEvents, env) ==
  IF changeEvents = <<>> THEN s
  ELSE LET event == Head(changeEvents)
           s1 == IF event.type # "FileAdded" THEN s
                 ELSE EmitPlotOutput(s, event.file, "changed", env)
       IN onPlotFilesChanged(s1, Tail(changeEvents), env)

\* the stale plots beginPlotCapture removes from the folder
RECURSIVE RemoveStalePlots(_, _)
RemoveStalePlots(s, files) ==
  IF files = <<>> THEN s
  ELSE LET file == Head(files)
           s1 == IF isPlotPath(file) THEN RemoveFile(s, file, {}) ELSE s
       IN RemoveStalePlots(s1, Tail(files))

\* err: "list" (the folder cannot be listed), "device" (the png device
\* cannot be created) or "none"; handle is the one registerMonitor hands out
beginPlotCapture(s, handle, plotFolder, err) ==
  IF err = "list" THEN [st |-> s, error |-> TRUE]
  ELSE LET s1 == RemoveStalePlots(s, SortedSeq(children(s, plotFolder)))
       IN IF err = "device" THEN [st |-> s1, error |-> TRUE]
          ELSE [st |-> [s1 EXCEPT
                          !.devices = openDevice(@, plotFolder),
                          !.monitor[handle] = "registering"],
                error |-> FALSE]

\* connect() that leaves plotsConnected_ for the registration callback to set
connect_unarmed(s, c, dirOk, err) ==
  IF ~dirOk THEN [s EXCEPT !.connectOutcome[c] = "aborted"]
  ELSE LET s1 == [s EXCEPT
                    !.sigs.onConsolePrompt =
                       SignalConnect(@, Slot("onConsolePrompt", c, <<"_1">>, 0)),
                    !.sigs.onPlotOutput = SignalConnect(@, PlotSlot(c)),
                    !.sigs.onPlotOutputComplete =
                       SignalConnect(@, PlotCompleteSlot(c))]
           r == beginPlotCapture(s1, c, s.chunkId_[c], err)
       IN [r.st EXCEPT !.consoleConnected_[c] = TRUE,
                       !.connectOutcome[c] =
                          IF r.error THEN "console" ELSE "both"]

\* connect() that logs the ensureDirectory error and carries on
connect_anyway(s, c, dirOk, err) ==
  LET s1 == [s EXCEPT
               !.sigs.onConsolePrompt =
                  SignalConnect(@, Slot("onConsolePrompt", c, <<"_1">>, 0)),
               !.sigs.onConsoleOutput =
                  SignalConnect(@,
                     Slot("onConsoleOutput", c, <<"_1", "_2">>, 0)),
               !.sigs.onConsoleInput =
                  SignalConnect(@, Slot("onConsoleInput", c, <<"_1">>, 0)),
               !.sigs.onPlotOutput = SignalConnect(@, PlotSlot(c)),
               !.sigs.onPlotOutputComplete =
                  SignalConnect(@, PlotCompleteSlot(c))]
      r == beginPlotCapture(s1, c, s.chunkId_[c], err)
      s2 == IF r.error THEN r.st
            ELSE [r.st EXCEPT !.plotsConnected_[c] = TRUE]
      s3 == [s2 EXCEPT !.sigs.onHtmlOutput = SignalConnect(@, HtmlSlot(c))]
  IN [s3 EXCEPT !.consoleConnected_[c] = TRUE,
                !.connectOutcome[c] =
                   IF ~dirOk THEN "aborted"
                   ELSE IF r.error THEN "console" ELSE "both"]

connect(s, c, dirOk, err) ==
  IF ~dirOk THEN [s EXCEPT !.connectOutcome[c] = "aborted"]
  ELSE LET outputPath == s.chunkId_[c]
           s1 == [s EXCEPT
                    !.sigs.onConsolePrompt =
                       SignalConnect(@, Slot("onConsolePrompt", c, <<"_1">>, 0)),
                    !.sigs.onConsoleOutput =
                       SignalConnect(@,
                          Slot("onConsoleOutput", c, <<"_1", "_2">>, 0)),
                    !.sigs.onConsoleInput =
                       SignalConnect(@, Slot("onConsoleInput", c, <<"_1">>, 0)),
                    !.sigs.onPlotOutput = SignalConnect(@, PlotSlot(c)),
                    !.sigs.onPlotOutputComplete =
                       SignalConnect(@, PlotCompleteSlot(c))]
           r == beginPlotCapture(s1, c, outputPath, err)
           s2 == IF r.error THEN r.st
                 ELSE [r.st EXCEPT !.plotsConnected_[c] = TRUE]
           s3 == [s2 EXCEPT !.sigs.onHtmlOutput = SignalConnect(@, HtmlSlot(c))]
       IN [s3 EXCEPT !.consoleConnected_[c] = TRUE,
                     !.connectOutcome[c] =
                        IF r.error THEN "console" ELSE "both"]

\* ----------------------------------------------------------------- actions
\* what the environment decides during one dispatch: the contexts whose
\* file moves the file system refuses, whether the console csv can be
\* written, and the monitors that report a change while (un)registering
Env(failing, writeOk, racy) ==
  [failing |-> failing, writeOk |-> writeOk, racy |-> racy]

NoEnv == Env({}, TRUE, {})

\* at most one of the contexts listening for artifacts has its move refused
FailChoices(sig) ==
  {{}} \cup {{sig[i].this} : i \in 1..Len(sig)}

RacyChoices == {{}, Ctx}

MaxOf(S) == CHOOSE x \in S : \A y \in S : y <= x

Init ==
  /\ chunkId_ = [c \in Ctx |-> c]
  /\ consoleConnected_ = [c \in Ctx |-> FALSE]
  /\ plotsConnected_ = [c \in Ctx |-> FALSE]
  /\ connectOutcome = [c \in Ctx |-> "none"]
  /\ sigs = NoSlots
  /\ monitor = [c \in Ctx |-> "none"]
  /\ monEvents = [c \in Ctx |-> <<>>]
  /\ disk = {}
  /\ devices = NoDevices
  /\ ledger = [k \in Chunk |-> InitialOutputPair]
  /\ enqueued = <<>>
  /\ consoleLog = [k \in Chunk |-> <<>>]
  /\ consoleNotified = [c \in Ctx |-> 0]
  /\ completedEvents = [c \in Ctx |-> <<>>]
  /\ cacheLib = [k \in Chunk |-> FALSE]
  /\ failedMoves = {}
  /\ sessionTrace = [k \in Chunk |-> <<>>]
  /\ running = 0
  /\ nDraws = 0
  /\ nHtml = 0

\* the caller starts executing the next chunk, once R is back at top level:
\* it connects the chunk's context
Connect(c) ==
  /\ running = 0
  /\ connectOutcome[c] = "none"
  /\ \A d \in 1..(c - 1) : connectOutcome[d] # "none"
  /\ \E dirOk \in BOOLEAN, err \in {"none", "list", "device"} :
       Commit([connect(State, c, dirOk, err) EXCEPT !.running = c])

\* R returns to top level: module_context::events().onConsolePrompt
Prompt ==
  Commit([Emit(State, "onConsolePrompt", "", NoEnv) EXCEPT !.running = 0])

\* the console texts that reached a listener so far
TextsSoFar == MaxOf({consoleNotified[c] : c \in Ctx})

ConsoleOutput ==
  /\ TextsSoFar < MaxText
  /\ \E type \in {"ConsoleOutputNormal", "ConsoleOutputError"},
        text \in {"", "x"}, writeOk \in BOOLEAN :
       Commit(Emit(State, "onConsoleOutput", [type |-> type, text |-> text],
                   Env({}, writeOk, {})))

ConsoleInput ==
  /\ TextsSoFar < MaxText
  /\ \E text \in {"", "x"}, writeOk \in BOOLEAN :
       Commit(Emit(State, "onConsoleInput", [type |-> "", text |-> text],
                   Env({}, writeOk, {})))

\* the running chunk starts a new page on the current graphics device
DrawPlot ==
  /\ running # 0
  /\ devices.cur # 0
  /\ LET n == devices.cur
         d == devices.slots[n]
     IN /\ nDraws < MaxDraws
        /\ \E racy \in RacyChoices :
             IF d.open
             THEN Commit([WriteFile(State, PlotFile(d.folder, d.page + 1),
                                    racy) EXCEPT
                            !.devices.slots[n].page = @ + 1,
                            !.nDraws = @ + 1])
             ELSE Commit([State EXCEPT !.devices.slots[n].open = TRUE,
                                       !.nDraws = @ + 1])

\* the widget capture of the running chunk writes an html fragment, with or
\* without a lib folder next to it, and emits events().onHtmlOutput
HtmlOutput ==
  /\ running # 0
  /\ consoleConnected_[running]
  /\ nHtml < MaxHtml
  /\ \E withLib \in BOOLEAN, failing \in FailChoices(sigs.onHtmlOutput) :
       LET k == chunkId_[running]
           file == HtmlFile(k, nHtml + 1)
           s1 == WriteFile(State, file, {})
           s2 == IF withLib THEN WriteFile(s1, LibDir(k), {}) ELSE s1
       IN Commit([Emit(s2, "onHtmlOutput", file, Env(failing, TRUE, {}))
                    EXCEPT !.nHtml = @ + 1])

\* file monitor callbacks, delivered on the main thread
MonitorRegistered(h) ==
  /\ monitor[h] = "registering"
  /\ \E failing \in FailChoices(sigs.onPlotOutput) :
       LET root == chunkId_[h]
           files == SortedSeq({p \in children(State, root) : plotFilter(p)})
           s1 == [State EXCEPT !.monitor[h] = "registered"]
       IN Commit(onMonitorRegistered(s1, h, files, Env(failing, TRUE, {})))

MonitorRegError(h) ==
  /\ monitor[h] = "registering"
  /\ \E failing \in FailChoices(sigs.onPlotOutput), racy \in RacyChoices :
       LET s1 == [State EXCEPT !.monitor[h] = "failed", !.monEvents[h] = <<>>]
       IN Commit(onMonitorRegError(s1, chunkId_[h],
                                   Env(failing, TRUE, racy)))

\* the queued changes are delivered in one batch
FilesChanged(h) ==
  /\ monitor[h] \in {"registered", "unregistering"}
  /\ monEvents[h] # <<>>
  /\ \E failing \in FailChoices(sigs.onPlotOutput) :
       LET s1 == [State EXCEPT !.monEvents[h] = <<>>]
       IN Commit(onPlotFilesChanged(s1, monEvents[h],
                                    Env(failing, TRUE, {})))

MonitorUnregistered(h) ==
  /\ monitor[h] = "unregistering"
  /\ \E failing \in FailChoices(sigs.onPlotOutput), racy \in RacyChoices :
       LET s1 == [State EXCEPT !.monitor[h] = "unregistered",
                               !.monEvents[h] = <<>>]
       IN Commit(onMonitorUnregistered(s1, chunkId_[h],
                                       Env(failing, TRUE, racy)))

Next ==
  \/ \E c \in Ctx : Connect(c)
  \/ Prompt
  \/ ConsoleOutput
  \/ ConsoleInput
  \/ DrawPlot
  \/ HtmlOutput
  \/ \E h \in Ctx : MonitorRegistered(h)
  \/ \E h \in Ctx : MonitorRegError(h)
  \/ \E h \in Ctx : FilesChanged(h)
  \/ \E h \in Ctx : MonitorUnregistered(h)

Spec == Init /\ [][Next]_vars

\* the plot capture alone: contexts, prompts, pages and monitor callbacks
NextPlots ==
  \/ \E c \in Ctx : Connect(c)
  \/ Prompt
  \/ DrawPlot
  \/ \E h \in Ctx : MonitorRegistered(h)
  \/ \E h \in Ctx : MonitorRegError(h)
  \/ \E h \in Ctx : FilesChanged(h)
  \/ \E h \in Ctx : MonitorUnregistered(h)

SpecPlots == Init /\ [][NextPlots]_vars

\* the plot capture and the console text
NextOutputs ==
  \/ \E c \in Ctx : Connect(c)
  \/ Prompt
  \/ ConsoleOutput
  \/ ConsoleInput
  \/ DrawPlot
  \/ \E h \in Ctx : MonitorRegistered(h)
  \/ \E h \in Ctx : MonitorRegError(h)
  \/ \E h \in Ctx : FilesChanged(h)
  \/ \E h \in Ctx : MonitorUnregistered(h)

SpecOutputs == Init /\ [][NextOutputs]_vars

\* ------------------------------------------------------------------ claims
Emitted(c) == Len(completedEvents[c])

\* onChunkExecCompleted as disconnect() emits it (the console flag is still
\* set) and as onPlotOutputComplete() emits it
ByDisconnect == [console |-> TRUE, plots |-> FALSE]
ByPlotComplete == [console |-> FALSE, plots |-> FALSE]

\* C1: a context that armed console and plot capture has emitted
\* onChunkExecCompleted exactly once when both the prompt and the
\* plot-capture-complete event have reached it, and not at all before that
JoinExactlyOnce ==
  \A c \in Ctx :
    connectOutcome[c] = "both" =>
      Emitted(c) = IF ~consoleConnected_[c] /\ ~plotsConnected_[c] THEN 1
                   ELSE 0

\* one context completed by the prompt coming second, another by the
\* plot-capture-complete event coming second
JoinBothOrders ==
  \E c, d \in Ctx :
    /\ connectOutcome[c] = "both" /\ completedEvents[c] = <<ByDisconnect>>
    /\ connectOutcome[d] = "both" /\ completedEvents[d] = <<ByPlotComplete>>

\* the prompt reaches context c in this step
PromptReaches(c) == consoleConnected_[c] /\ ~consoleConnected_'[c]

\* C2 as stated: a prompt that reaches the context while its monitor is
\* still registering finds plotsConnected_ false and completes the context
PromptBeforeRegistrationCompletes ==
  [][\A c \in Ctx :
       PromptReaches(c) /\ monitor[c] = "registering" =>
         ~plotsConnected_[c] /\ Emitted(c)' = Emitted(c) + 1]_vars

\* C2 as amended: a prompt that reaches the context while its monitor is
\* still registering, no plot-capture-complete event having reached it,
\* finds plotsConnected_ true and emits nothing
PromptBeforeRegistrationDefers ==
  [][\A c \in Ctx :
       /\ PromptReaches(c)
       /\ monitor[c] = "registering"
       /\ IsConnected(sigs.onPlotOutputComplete, PlotCompleteSlot(c))
       => plotsConnected_[c] /\ plotsConnected_'[c]
            /\ completedEvents'[c] = <<>>]_vars

PromptedWhileRegistering ==
  \E c \in Ctx :
    /\ connectOutcome[c] = "both"
    /\ monitor[c] = "registering"
    /\ ~consoleConnected_[c]
    /\ plotsConnected_[c]
    /\ completedEvents[c] = <<>>

\* C3: a context whose plot capture could not be armed (beginPlotCapture
\* failed, or the monitor registration failed) is not waiting for a
\* plot-capture-complete event, and has emitted onChunkExecCompleted once the
\* prompt has reached it
ArmingFailed(c) == connectOutcome[c] = "console" \/ monitor[c] = "failed"

ArmingFailureCompletes ==
  \A c \in Ctx :
    ArmingFailed(c) =>
      /\ ~plotsConnected_[c]
      /\ ~consoleConnected_[c] => Emitted(c) >= 1

ArmingFailuresCompleted ==
  \E c, d \in Ctx :
    /\ connectOutcome[c] = "console" /\ ~consoleConnected_[c]
    /\ completedEvents[c] = <<ByDisconnect>>
    /\ monitor[d] = "failed" /\ ~consoleConnected_[d] /\ Emitted(d) = 1

\* the artifacts recorded for chunk k, in the order they were recorded
Recorded(k) == SelectSeq(enqueued, LAMBDA r : r.chunk = k)

FailedMoveConsumesOrdinal ==
  \A m \in failedMoves : m.after = m.ordinal

\* C5 as amended: a move that fails leaves the ledger as it was, and when the
\* ledger later reaches the ordinal computed for the failed move it is a
\* recorded artifact that carries it
FailedMoveKeepsOrdinal ==
  \A m \in failedMoves :
    LET k == chunkId_[m.ctx]
    IN /\ m.after = m.ordinal - 1
       /\ ledger[k].ordinal >= m.ordinal =>
            \E i \in 1..Len(Recorded(k)) : Recorded(k)[i].ordinal = m.ordinal

\* the ordinal of a refused move went to the next artifact of the chunk
FailedOrdinalReused ==
  \E m \in failedMoves :
    /\ m.refused
    /\ \E i \in 1..Len(Recorded(chunkId_[m.ctx])) :
         Recorded(chunkId_[m.ctx])[i].ordinal = m.ordinal

\* context c has seen both sides finish and has emitted onChunkExecCompleted
Completed(c) ==
  ~consoleConnected_[c] /\ ~plotsConnected_[c] /\ Emitted(c) >= 1

\* the artifacts context c relocated and recorded
RecordedBy(c) == SelectSeq(enqueued, LAMBDA r : r.ctx = c)

\* C6: once both flags of a context are false and it has emitted
\* onChunkExecCompleted, no event makes it append to the chunk's console
\* log, relocate an artifact or update the chunk's ledger
NoOutputAfterCompletion ==
  [][\A c \in Ctx :
       Completed(c) =>
         /\ consoleLog'[chunkId_[c]] = consoleLog[chunkId_[c]]
         /\ RecordedBy(c)' = RecordedBy(c)
         /\ ledger'[chunkId_[c]] = ledger[chunkId_[c]]]_vars

\* the slots of context c in a signal
SlotsOf(sig, c) == {i \in 1..Len(sig) : sig[i].this = c}

\* C7: a context whose output directory could not be created has no handler
\* subscribed, no plot capture started and both flags false, and no event
\* makes it record, relocate, notify or complete anything
AbortedConnectArmsNothing ==
  \A c \in Ctx :
    connectOutcome[c] = "aborted" =>
      /\ \A name \in DOMAIN sigs : SlotsOf(sigs[name], c) = {}
      /\ ~consoleConnected_[c] /\ ~plotsConnected_[c]
      /\ monitor[c] = "none" /\ sessionTrace[chunkId_[c]] = <<>>
      /\ \A i \in Ctx : devices.slots[i].folder # chunkId_[c]
      /\ consoleLog[chunkId_[c]] = <<>> /\ consoleNotified[c] = 0
      /\ RecordedBy(c) = <<>> /\ \A m \in failedMoves : m.ctx # c
      /\ ledger[chunkId_[c]] = InitialOutputPair
      /\ Emitted(c) = 0

\* the first context was aborted and console text, plots and html of the
\* chunk executed after it were recorded
EventsAfterAbortedConnect ==
  /\ connectOutcome[1] = "aborted"
  /\ consoleNotified[2] > 0
  /\ \E i, j \in 1..Len(RecordedBy(2)) :
       /\ RecordedBy(2)[i].outputType = "kChunkOutputPlot"
       /\ RecordedBy(2)[j].outputType = "kChunkOutputHtml"

\* the paths a capture session forwarded as onPlotOutput by one route
Forwarded(k, route) ==
  {sessionTrace[k][i].file : i \in
     {j \in 1..Len(sessionTrace[k]) :
        /\ sessionTrace[k][j].op = "onPlotOutput"
        /\ sessionTrace[k][j].route = route}}

\* the records made of one path, under whichever chunk
RecordsOf(file) == {i \in 1..Len(enqueued) : enqueued[i].file = file}

\* a move of the path was refused by the file system
Refused(file) == \E m \in failedMoves : m.file = file /\ m.refused

\* C8: a plot file that is in the watched folder when the registration
\* succeeds is recorded exactly once, unless the file system refused the move
ListedAtRegistrationRecordedOnce ==
  \A k \in Chunk :
    \A file \in Forwarded(k, "registered") :
      ~Refused(file) => Cardinality(RecordsOf(file)) = 1

\* C9: a plot file that the re-listing of removeGraphicsDevice finds in the
\* watched folder is recorded exactly once, unless the file system refused
\* the move
ListedAtTeardownRecordedOnce ==
  \A k \in Chunk :
    \A file \in Forwarded(k, "teardown") :
      ~Refused(file) => Cardinality(RecordsOf(file)) = 1

\* the calls of one kind in the record of a capture session
Calls(tr, op) == {i \in 1..Len(tr) : tr[i].op = op}

\* C10: a capture session is torn down once, when its monitor is
\* unregistered or its registration fails: dev.off, then onPlotOutput for
\* every plot file of the folder, then onPlotOutputComplete, after which the
\* session emits nothing
TeardownInOrder ==
  [][\A k \in Chunk :
       LET old == sessionTrace[k]
           new == sessionTrace[k]'
           off == Len(old) + 1
           plots == {i \in (off + 1)..(Len(new) - 1) : TRUE}
       IN /\ new # old => Calls(old, "onPlotOutputComplete") = {}
          /\ (monitor[k]' \in {"unregistered", "failed"}) =
               (Cardinality(Calls(new, "onPlotOutputComplete")) = 1)
          /\ Calls(new, "onPlotOutputComplete") # Calls(old, "onPlotOutputComplete") =>
               /\ Len(new) >= off + 1
               /\ new[off].op = "dev.off"
               /\ new[Len(new)].op = "onPlotOutputComplete"
               /\ \A i \in plots : /\ new[i].op = "onPlotOutput"
                                    /\ new[i].route = "teardown"
               /\ \A i, j \in plots :
                    i < j => SortKey(new[i].file) < SortKey(new[j].file)
               /\ \A file \in disk \cup disk' :
                    file.parent = k /\ isPlotPath(file) =>
                      \E i \in plots : new[i].file = file]_vars

\* one session torn down after its monitor was unregistered, with a plot
\* found by the re-listing, and one torn down by a registration error
TornDownBothWays ==
  \E k, l \in Chunk :
    /\ monitor[k] = "unregistered" /\ Forwarded(k, "teardown") # {}
    /\ monitor[l] = "failed"
    /\ Calls(sessionTrace[l], "onPlotOutputComplete") # {}

\* the registration of monitor h fails in this step
RegistrationFails(h) == monitor[h] = "registering" /\ monitor[h]' = "failed"

\* C11: the registration-error callback tears the session down at once:
\* dev.off, the sweep of the folder and onPlotOutputComplete happen in the
\* callback, the context's plotsConnected_ is false when it returns and no
\* prompt subscription for the monitor is armed
RegErrorTearsDownAtOnce ==
  [][\A h \in Ctx :
       RegistrationFails(h) =>
         LET old == sessionTrace[chunkId_[h]]
             new == sessionTrace[chunkId_[h]]'
         IN /\ Len(new) >= Len(old) + 2
            /\ new[Len(old) + 1].op = "dev.off"
            /\ new[Len(new)].op = "onPlotOutputComplete"
            /\ \A file \in disk :
                 file.parent = chunkId_[h] /\ isPlotPath(file) =>
                   file \in Forwarded(chunkId_[h], "teardown")'
            /\ ~plotsConnected_[h]'
            /\ ~IsConnected(sigs.onConsolePrompt', UnregisterSlot(h))]_vars

\* a registration failed while the context was still waiting for its plots,
\* and the sweep found a plot
RegErrorSweptPlots ==
  \E h \in Ctx :
    /\ monitor[h] = "failed"
    /\ completedEvents[h] = <<ByPlotComplete>>
    /\ Forwarded(chunkId_[h], "teardown") # {}

\* the prompt subscription of monitor h is connected
TeardownArmed(h) == IsConnected(sigs.onConsolePrompt, UnregisterSlot(h))

\* C12: the prompt subscription armed by onMonitorRegistered is one-shot: it
\* is connected exactly while the monitor is registered, the first prompt
\* unregisters the monitor and removes it, and whatever prompts follow the
\* monitor is unregistered and the session torn down at most once
TeardownSubscriptionOneShot ==
  [][\A h \in Ctx :
       /\ TeardownArmed(h) = (monitor[h] = "registered")
       /\ TeardownArmed(h)' = (monitor[h]' = "registered")
       /\ monitor[h] = "registered" /\ Prompt =>
            monitor[h]' = "unregistering"
       /\ monitor[h] = "unregistering" =>
            monitor[h]' \in {"unregistering", "unregistered"}
       /\ monitor[h] = "unregistered" =>
            /\ monitor[h]' = "unregistered"
            /\ sessionTrace[chunkId_[h]]' = sessionTrace[chunkId_[h]]
       /\ Cardinality(Calls(sessionTrace[chunkId_[h]]', "dev.off")) <= 1]_vars

\* the first session was torn down before the second chunk was connected,
\* and the second chunk has had its prompt since
PromptAfterTeardown ==
  /\ monitor[1] = "unregistered"
  /\ connectOutcome[2] = "both"
  /\ plotsConnected_[2] /\ ~consoleConnected_[2]

\* what onConsoleOutput and onConsoleInput make of a text, in this state
ConsoleHandled(c, text, writeOk) ==
  {onConsoleOutput(State, c, "ConsoleOutputNormal", text, writeOk),
   onConsoleOutput(State, c, "ConsoleOutputError", text, writeOk),
   onConsoleInput(State, c, text, writeOk)}

\* C13: onChunkConsoleOutput is emitted if and only if the text is not
\* empty: an empty text changes nothing, a text that is not empty is
\* notified once, whether or not the line could be written to the log, and
\* the log grows by one line only when it could
ConsoleNotifiedIffNonEmpty ==
  \A c \in Ctx, text \in {"", "x"}, writeOk \in BOOLEAN :
    \A s2 \in ConsoleHandled(c, text, writeOk) :
      LET k == chunkId_[c]
      IN /\ text = "" => s2 = State
         /\ text # "" =>
              /\ s2.consoleNotified[c] = consoleNotified[c] + 1
              /\ Len(s2.consoleLog[k]) =
                   Len(consoleLog[k]) + (IF writeOk THEN 1 ELSE 0)
              /\ writeOk => s2.consoleLog[k][Len(s2.consoleLog[k])].text = text

\* a console text was notified although its line could not be written
NotifiedWithoutLogLine ==
  \E c \in Ctx : consoleNotified[c] = 1 /\ consoleLog[chunkId_[c]] = <<>>

\* ------------------------------------------------- a chunk executed twice
\* both contexts execute chunk 1: the second is its re-execution
MaxRerunText == 2

InitRerun ==
  /\ chunkId_ = [c \in Ctx |-> 1]
  /\ consoleConnected_ = [c \in Ctx |-> FALSE]
  /\ plotsConnected_ = [c \in Ctx |-> FALSE]
  /\ connectOutcome = [c \in Ctx |-> "none"]
  /\ sigs = NoSlots
  /\ monitor = [c \in Ctx |-> "none"]
  /\ monEvents = [c \in Ctx |-> <<>>]
  /\ disk = {}
  /\ devices = NoDevices
  /\ ledger = [k \in Chunk |-> InitialOutputPair]
  /\ enqueued = <<>>
  /\ consoleLog = [k \in Chunk |-> <<>>]
  /\ consoleNotified = [c \in Ctx |-> 0]
  /\ completedEvents = [c \in Ctx |-> <<>>]
  /\ cacheLib = [k \in Chunk |-> FALSE]
  /\ failedMoves = {}
  /\ sessionTrace = [k \in Chunk |-> <<>>]
  /\ running = 0
  /\ nDraws = 0
  /\ nHtml = 0

\* console text while a chunk is being executed
RerunConsoleOutput ==
  /\ running # 0
  /\ TextsSoFar < MaxRerunText
  /\ \E type \in {"ConsoleOutputNormal", "ConsoleOutputError"},
        text \in {"", "x"}, writeOk \in BOOLEAN :
       Commit(Emit(State, "onConsoleOutput", [type |-> type, text |-> text],
                   Env({}, writeOk, {})))

RerunConsoleInput ==
  /\ running # 0
  /\ TextsSoFar < MaxRerunText
  /\ \E text \in {"", "x"}, writeOk \in BOOLEAN :
       Commit(Emit(State, "onConsoleInput", [type |-> "", text |-> text],
                   Env({}, writeOk, {})))

NextRerun ==
  \/ \E c \in Ctx : Connect(c)
  \/ Prompt
  \/ RerunConsoleOutput
  \/ RerunConsoleInput
  \/ DrawPlot
  \/ \E h \in Ctx : MonitorRegistered(h)
  \/ \E h \in Ctx : MonitorRegError(h)
  \/ \E h \in Ctx : FilesChanged(h)
  \/ \E h \in Ctx : MonitorUnregistered(h)

SpecRerun == InitRerun /\ [][NextRerun]_vars

\* C14: the first console text a chunk's execution writes truncates the
\* chunk's console log: if the log held records of an earlier execution,
\* it holds the new record alone afterwards
FirstWriteTruncatesLog ==
  [][\A c \in Ctx :
       /\ running = c
       /\ consoleNotified[c] = 0 /\ consoleNotified[c]' = 1
       /\ consoleLog[chunkId_[c]]' # consoleLog[chunkId_[c]]
       /\ consoleLog[chunkId_[c]] # <<>>
       => Len(consoleLog[chunkId_[c]]') = 1]_vars

\* the artifacts a capture may hand to onFileOutput
Artifacts ==
  {PlotFile(k, n) : k \in Chunk, n \in 1..MaxDraws}
    \cup {HtmlFile(k, n) : k \in Chunk, n \in 1..MaxHtml}

\* C15: when the move in onFileOutput fails, because the file system refuses
\* it or the file is gone, no listener is notified, the lib folder next to
\* the file is left alone and the ledger is unchanged; when it succeeds the
\* listeners are notified once
NotifiedOnlyWhenMoved ==
  \A c \in Ctx, file \in Artifacts, moveOk \in BOOLEAN :
    LET outputType == IF isPlotPath(file) THEN "kChunkOutputPlot"
                      ELSE "kChunkOutputHtml"
        s2 == onFileOutput(State, c, file, outputType, moveOk)
    IN IF file \in disk /\ moveOk
       THEN /\ Len(s2.enqueued) = Len(enqueued) + 1
            /\ s2.enqueued[Len(s2.enqueued)].file = file
            /\ file \notin s2.disk
       ELSE /\ s2.enqueued = enqueued
            /\ s2.ledger = ledger
            /\ s2.disk = disk /\ s2.cacheLib = cacheLib

\* the move of an html fragment was refused while its lib folder was there,
\* and the folder is still there
RefusedWithLibFolder ==
  \E m \in failedMoves :
    /\ m.refused
    /\ m.file.ext = ".html"
    /\ LibDir(m.file.parent) \in disk
    /\ Recorded(chunkId_[m.ctx]) = <<>>

\* C16: whenever onChunkExecCompleted is emitted for a context, a listener
\* that reads the context's flags during the emission finds both false
CompletionSeesFlagsFalse ==
  \A c \in Ctx :
    \A i \in 1..Len(completedEvents[c]) :
      ~completedEvents[c][i].console /\ ~completedEvents[c][i].plots

\* the signals connect() subscribes a context to
ConnectSignals ==
  {"onConsolePrompt", "onConsoleOutput", "onConsoleInput", "onPlotOutput",
   "onPlotOutputComplete", "onHtmlOutput"}

\* C17: a context that has emitted onChunkExecCompleted has no slot left in
\* any of the signals connect() subscribed it to
NoSlotsAfterCompletion ==
  \A c \in Ctx :
    Emitted(c) >= 1 =>
      \A name \in ConnectSignals : SlotsOf(sigs[name], c) = {}

\* ------------------------------------------- disconnect() called directly
\* the owner of a context calls its public disconnect()
MaxCompleted == 2

Disconnect(c) ==
  /\ Len(completedEvents[c]) < MaxCompleted
  /\ Commit(disconnect(State, c))

NextDisconnect ==
  \/ \E c \in Ctx : Connect(c)
  \/ \E c \in Ctx : Disconnect(c)
  \/ Prompt
  \/ DrawPlot
  \/ \E h \in Ctx : MonitorRegistered(h)
  \/ \E h \in Ctx : MonitorRegError(h)
  \/ \E h \in Ctx : FilesChanged(h)
  \/ \E h \in Ctx : MonitorUnregistered(h)

SpecDisconnect == Init /\ [][NextDisconnect]_vars

\* C18: disconnect() called on a context that is not console-connected
\* (never connected, aborted in connect(), or disconnected already) emits no
\* onChunkExecCompleted and changes no flag
DisconnectOnlyWhenConnected ==
  [][\A c \in Ctx :
       ~consoleConnected_[c] /\ Disconnect(c) =>
         /\ completedEvents' = completedEvents
         /\ consoleConnected_' = consoleConnected_
         /\ plotsConnected_' = plotsConnected_]_vars

\* C19: every path forwarded as onPlotOutput, by the listing at registration,
\* by a file-added event or by the re-listing at teardown, is a plot file
\* (isPlotPath); a directory added under the watched folder is not forwarded
OnlyPlotsForwarded ==
  \A k \in Chunk :
    \A i \in 1..Len(sessionTrace[k]) :
      sessionTrace[k][i].op = "onPlotOutput" =>
        isPlotPath(sessionTrace[k][i].file)

\* C20: chunks are executed one after another, and every plot is relocated
\* by the context of the chunk whose capture folder it was written to and
\* recorded under that chunk
PlotsRecordedUnderOwnChunk ==
  \A i \in 1..Len(enqueued) :
    enqueued[i].outputType = "kChunkOutputPlot" =>
      /\ enqueued[i].file.parent = enqueued[i].chunk
      /\ chunkId_[enqueued[i].ctx] = enqueued[i].file.parent

====
